---- MODULE Spec2Model ----
(***************************************************************************)
(* Model of app.py, the Pixabay video downloader: one script run per click *)
(* of "Search & Download Videos".  A run validates the form, walks up to   *)
(* total_pages_to_check search pages, filters the hits, downloads the      *)
(* eligible videos one by one into a zip held in memory and offers it.     *)
(*                                                                         *)
(* Python dicts are modelled as TLA+ records whose DOMAIN is the dict's    *)
(* key set, so d.get(k) is a test of k \in DOMAIN d and d[k] on a missing  *)
(* key is the KeyError the code would raise.                               *)
(***************************************************************************)
EXTENDS Integers, Sequences, FiniteSets, TLC

----------------------------------------------------------------------------
(* Bounds of the model *)

\* largest number of hits in one modelled search page (the API allows 200)
MaxPageLen == 2
\* largest slider value modelled (the slider allows 1..20)
MaxNum == 2

----------------------------------------------------------------------------
(* Program constants and form inputs *)

total_pages_to_check == 2

\* options of the "Preferred Video Quality" selectbox
Qualities == {"medium", "small", "tiny", "large"}

\* the options the modelled operator picks among: one rendition every video
\* has and the one Pixabay may report as unavailable
QualityChoices == {"medium", "large"}

\* values entered in the two duration number inputs (the form's defaults)
DurationChoices == {10, 30}

NumChoices == 1..MaxNum

----------------------------------------------------------------------------
(* Search responses: the hit records the API may return *)

\* the object of one rendition: {"url": ...}, an object without "url", or {}
RenditionUrl == [url |-> "https://cdn/v.mp4"]
RenditionBlank == [url |-> ""]
RenditionNoUrl == [thumbnail |-> "https://cdn/t.jpg"]
RenditionEmpty == <<>>

\* the "videos" mapping of a hit, quality tag -> rendition object
VideosPool ==
    { [q \in Qualities |-> RenditionUrl],
      \* Pixabay reports an unavailable "large" rendition with an empty url
      [q \in Qualities |-> IF q = "large" THEN RenditionBlank ELSE RenditionUrl],
      [q \in Qualities |-> RenditionNoUrl],
      [q \in Qualities |-> RenditionEmpty],
      <<>> }

HitIds == {1, 2}
HitDurations == {9, 10, 30, 31}

\* a hit is a dict; each of "id", "duration", "videos" may be missing
HitPool ==
    LET withV == [videos : VideosPool] \cup {<<>>}
        withD == withV \cup
                 {[k \in DOMAIN v \cup {"duration"} |->
                       IF k = "duration" THEN d ELSE v[k]] :
                   v \in withV, d \in HitDurations}
    IN  withD \cup
        {[k \in DOMAIN h \cup {"id"} |-> IF k = "id" THEN n ELSE h[k]] :
            h \in withD, n \in HitIds}

\* the decoded body: whether it has a "hits" key, and the length of that list
HitsShapes ==
    {[key |-> FALSE, len |-> 0]} \cup {[key |-> TRUE, len |-> n] : n \in 0..MaxPageLen}

----------------------------------------------------------------------------
(* Pure helpers of the search phase *)

\* variant: the validation rejects only min_duration > max_duration
InvalidRange_Strict(mn, mx) == mn > mx

\* if min_duration >= max_duration
InvalidRange(mn, mx) == mn >= mx

\* variant: only a missing "hits" key ends the paging, an empty list does not
NoHits_KeyOnly(shape) == ~shape.key

\* if not data.get("hits")
NoHits(shape) == ~shape.key \/ shape.len = 0

\* duration is not None and min_duration <= duration <= max_duration
DurationInRange(video, mn, mx) ==
    /\ "duration" \in DOMAIN video
    /\ mn <= video.duration
    /\ video.duration <= mx

\* if video["videos"].get(video_quality): the rendition object is truthy
QualityAvailable(videos, q) ==
    /\ q \in DOMAIN videos
    /\ DOMAIN videos[q] # {}

\* what the body of the filter loop does with one hit
FilterOutcome(video, mn, mx, q) ==
    IF ~DurationInRange(video, mn, mx) THEN "skip"
    ELSE IF "videos" \notin DOMAIN video THEN "error"
    ELSE IF QualityAvailable(video.videos, q) THEN "keep"
    ELSE "skip"

\* variant: the hit is inserted at the head of the list
KeepHit_Prepend(evs, video) == <<video>> \o evs

\* eligible_videos.append(video)
KeepHit(evs, video) == Append(evs, video)

\* variant: the count test is off by one
EnoughVideos_OffByOne(evs, n) == Len(evs) > n

\* if len(eligible_videos) >= num_videos_to_download
EnoughVideos(evs, n) == Len(evs) >= n

----------------------------------------------------------------------------
(* Pure helpers of the download phase *)

\* video["videos"][video_quality]["url"] raises KeyError
UrlLookupFails(video, q) ==
    \/ q \notin DOMAIN video.videos
    \/ "url" \notin DOMAIN video.videos[q]

DownloadUrl(video, q) == video.videos[q].url

\* requests.get rejects a URL without a scheme before sending anything
UrlHasScheme(url) == url # ""

\* video.get("id", f"unknown_id_{i}")
VideoId(video, idx) ==
    IF "id" \in DOMAIN video THEN ToString(video.id)
    ELSE "unknown_id_" \o ToString(idx)

\* f"pixabay_video_{video_id}.mp4"
FileName(video, idx) == "pixabay_video_" \o VideoId(video, idx) \o ".mp4"

----------------------------------------------------------------------------
(* State *)

VARIABLES
    pc,                      \* where the script run is
    min_duration, max_duration, video_quality, num_videos_to_download,
    downloaded_files,        \* st.session_state.downloaded_files
    eligible_videos,
    page,                    \* the page loop's variable
    remaining,               \* hits of the current page not yet examined
    i,                       \* the download loop's index (0-based)
    zip_buffer,              \* "none", "open" (inside the with), "closed"
    zip_file,                \* names of the entries written, in order
    offered,                 \* st.download_button was rendered
    status,                  \* kind of the last status_message
    search_requests,         \* pages requested from the search endpoint
    download_requests,       \* indices whose video URL was requested
    empty_page,              \* a search response had no hits
    search_failed,           \* an exception was raised in the search try
    archived,                \* indices written into the zip, in order
    skipped                  \* indices dropped by an except clause

inputs == <<min_duration, max_duration, video_quality, num_videos_to_download>>
search == <<eligible_videos, page, remaining, search_requests, empty_page,
            search_failed>>
download == <<i, zip_buffer, zip_file, download_requests, archived, skipped>>
vars == <<pc, inputs, downloaded_files, search, download, offered, status>>

\* the script is not running: it waits for the next click
Terminal == {"Idle", "Failed", "Stopped", "Ready", "Crashed"}

Init ==
    /\ pc = "Idle"
    /\ min_duration = 10
    /\ max_duration = 30
    /\ video_quality = "medium"
    /\ num_videos_to_download = 1
    /\ downloaded_files = <<>>
    /\ eligible_videos = <<>>
    /\ page = 1
    /\ remaining = 0
    /\ i = 0
    /\ zip_buffer = "none"
    /\ zip_file = <<>>
    /\ offered = FALSE
    /\ status = "none"
    /\ search_requests = <<>>
    /\ download_requests = <<>>
    /\ empty_page = FALSE
    /\ search_failed = FALSE
    /\ archived = <<>>
    /\ skipped = {}

\* a rerun of the script starts with no locals and a redrawn page
FreshRun ==
    /\ eligible_videos' = <<>>
    /\ page' = 1
    /\ remaining' = 0
    /\ i' = 0
    /\ zip_buffer' = "none"
    /\ zip_file' = <<>>
    /\ offered' = FALSE
    /\ search_requests' = <<>>
    /\ download_requests' = <<>>
    /\ empty_page' = FALSE
    /\ search_failed' = FALSE
    /\ archived' = <<>>
    /\ skipped' = {}

ReadForm(mn, mx, q, n) ==
    /\ min_duration' = mn
    /\ max_duration' = mx
    /\ video_quality' = q
    /\ num_videos_to_download' = n

----------------------------------------------------------------------------
(* The click and the search phase *)

\* the button is clicked with min_duration >= max_duration: error and st.stop()
ClickInvalid(mn, mx, q, n) ==
    /\ pc \in Terminal
    /\ InvalidRange(mn, mx)
    /\ ReadForm(mn, mx, q, n)
    /\ FreshRun
    /\ status' = "error"
    /\ pc' = "Idle"
    /\ UNCHANGED downloaded_files

\* the button is clicked with a valid range: reset and enter the page loop
ClickValid(mn, mx, q, n) ==
    /\ pc \in Terminal
    /\ ~InvalidRange(mn, mx)
    /\ ReadForm(mn, mx, q, n)
    /\ FreshRun
    /\ downloaded_files' = <<>>
    /\ status' = "info"
    /\ pc' = "Searching"

\* variant: the except clause reports the error but does not st.stop()
SearchFailed_NoStop ==
    /\ pc = "Searching"
    /\ search_requests' = Append(search_requests, page)
    /\ search_failed' = TRUE
    /\ status' = "error"
    /\ pc' = "Selected"
    /\ UNCHANGED <<inputs, downloaded_files, eligible_videos, page, remaining,
                   empty_page, download, offered>>

\* requests.get, raise_for_status or response.json() raises: error and st.stop()
SearchFailed ==
    /\ pc = "Searching"
    /\ search_requests' = Append(search_requests, page)
    /\ search_failed' = TRUE
    /\ status' = "error"
    /\ pc' = "Failed"
    /\ UNCHANGED <<inputs, downloaded_files, eligible_videos, page, remaining,
                   empty_page, download, offered>>

\* the page is fetched and decoded; an empty page leaves the page loop
SearchResponded(shape) ==
    /\ pc = "Searching"
    /\ search_requests' = Append(search_requests, page)
    /\ empty_page' = (empty_page \/ shape.len = 0)
    /\ IF NoHits(shape)
       THEN /\ remaining' = 0
            /\ pc' = "Selected"
            /\ page' = page
       ELSE /\ remaining' = shape.len
            /\ IF shape.len > 0
               THEN pc' = "Filtering" /\ page' = page
               ELSE IF page < total_pages_to_check
               THEN pc' = "Searching" /\ page' = page + 1
               ELSE pc' = "Selected" /\ page' = page
    /\ UNCHANGED <<inputs, downloaded_files, eligible_videos, search_failed,
                   download, offered, status>>

\* one iteration of the filter loop on the next hit of the page, then the
\* loop exits the code takes after it
FilterStep(video) ==
    /\ pc = "Filtering"
    /\ remaining > 0
    /\ LET outcome == FilterOutcome(video, min_duration, max_duration,
                                    video_quality)
           evs == IF outcome = "keep" THEN KeepHit(eligible_videos, video)
                  ELSE eligible_videos
       IN  IF outcome = "error"
           THEN /\ search_failed' = TRUE
                /\ status' = "error"
                /\ pc' = "Failed"
                /\ UNCHANGED <<eligible_videos, page, remaining>>
           ELSE /\ eligible_videos' = evs
                /\ remaining' = remaining - 1
                /\ UNCHANGED <<search_failed, status>>
                /\ IF outcome = "keep" /\ EnoughVideos(evs, num_videos_to_download)
                   THEN pc' = "Selected" /\ page' = page
                   ELSE IF remaining > 1
                   THEN pc' = "Filtering" /\ page' = page
                   ELSE IF EnoughVideos(evs, num_videos_to_download)
                   THEN pc' = "Selected" /\ page' = page
                   ELSE IF page < total_pages_to_check
                   THEN pc' = "Searching" /\ page' = page + 1
                   ELSE pc' = "Selected" /\ page' = page
    /\ UNCHANGED <<inputs, downloaded_files, search_requests, empty_page,
                   download, offered>>

\* if not eligible_videos: warning and st.stop(); otherwise open the zip
Select ==
    /\ pc = "Selected"
    /\ IF eligible_videos = <<>>
       THEN /\ status' = "warning"
            /\ pc' = "Stopped"
            /\ UNCHANGED zip_buffer
       ELSE /\ status' = "info"
            /\ pc' = "Downloading"
            /\ zip_buffer' = "open"
    /\ UNCHANGED <<inputs, downloaded_files, search, i, zip_file,
                   download_requests, archived, skipped, offered>>

----------------------------------------------------------------------------
(* The download phase *)

\* the for loop is exhausted (or the count guard breaks): the with block
\* closes the zip and the script goes on to the summary
DownloadLoopExit ==
    /\ pc = "Downloading"
    /\ \/ i >= Len(eligible_videos)
       \/ Len(downloaded_files) >= num_videos_to_download
    /\ zip_buffer' = "closed"
    /\ pc' = "Summary"
    /\ UNCHANGED <<inputs, downloaded_files, search, i, zip_file,
                   download_requests, archived, skipped, offered, status>>

\* the URL lookup before the try raises KeyError: nothing catches it, the
\* with block closes the zip and the script run dies
DownloadCrash ==
    /\ pc = "Downloading"
    /\ i < Len(eligible_videos)
    /\ Len(downloaded_files) < num_videos_to_download
    /\ UrlLookupFails(eligible_videos[i + 1], video_quality)
    /\ zip_buffer' = "closed"
    /\ pc' = "Crashed"
    /\ UNCHANGED <<inputs, downloaded_files, search, i, zip_file,
                   download_requests, archived, skipped, offered, status>>

\* requests.get raises before sending (URL without a scheme): except, continue
DownloadBadUrl ==
    /\ pc = "Downloading"
    /\ i < Len(eligible_videos)
    /\ Len(downloaded_files) < num_videos_to_download
    /\ ~UrlLookupFails(eligible_videos[i + 1], video_quality)
    /\ ~UrlHasScheme(DownloadUrl(eligible_videos[i + 1], video_quality))
    /\ skipped' = skipped \cup {i}
    /\ status' = "error"
    /\ i' = i + 1
    /\ UNCHANGED <<pc, inputs, downloaded_files, search, zip_buffer, zip_file,
                   download_requests, archived, offered>>

\* requests.get(download_url, stream=True) is sent
DownloadRequest ==
    /\ pc = "Downloading"
    /\ i < Len(eligible_videos)
    /\ Len(downloaded_files) < num_videos_to_download
    /\ ~UrlLookupFails(eligible_videos[i + 1], video_quality)
    /\ UrlHasScheme(DownloadUrl(eligible_videos[i + 1], video_quality))
    /\ download_requests' = Append(download_requests, i)
    /\ pc' = "Fetching"
    /\ UNCHANGED <<inputs, downloaded_files, search, i, zip_buffer, zip_file,
                   archived, skipped, offered, status>>

\* the body is streamed in full: writestr, then the name is recorded
DownloadSucceeded ==
    /\ pc = "Fetching"
    /\ LET filename == FileName(eligible_videos[i + 1], i)
       IN  /\ zip_file' = Append(zip_file, filename)
           /\ downloaded_files' = Append(downloaded_files, filename)
    /\ archived' = Append(archived, i)
    /\ status' = "text"
    /\ i' = i + 1
    /\ pc' = "Downloading"
    /\ UNCHANGED <<inputs, search, zip_buffer, download_requests, skipped,
                   offered>>

\* variant: the entry is written before the response is checked
DownloadFailed_WritesEntry ==
    /\ pc = "Fetching"
    /\ zip_file' = Append(zip_file, FileName(eligible_videos[i + 1], i))
    /\ skipped' = skipped \cup {i}
    /\ status' = "error"
    /\ i' = i + 1
    /\ pc' = "Downloading"
    /\ UNCHANGED <<inputs, downloaded_files, search, zip_buffer,
                   download_requests, archived, offered>>

\* the request, raise_for_status or the chunk loop raises: except, continue
DownloadFailed ==
    /\ pc = "Fetching"
    /\ skipped' = skipped \cup {i}
    /\ status' = "error"
    /\ i' = i + 1
    /\ pc' = "Downloading"
    /\ UNCHANGED <<inputs, downloaded_files, search, zip_buffer, zip_file,
                   download_requests, archived, offered>>

\* progress 100, the success message, then the download button or a warning
Summary ==
    /\ pc = "Summary"
    /\ IF downloaded_files # <<>>
       THEN offered' = TRUE /\ status' = "success"
       ELSE offered' = FALSE /\ status' = "warning"
    /\ pc' = "Ready"
    /\ UNCHANGED <<inputs, downloaded_files, search, download>>

----------------------------------------------------------------------------
(* Specification *)

Click ==
    \E mn \in DurationChoices, mx \in DurationChoices, q \in QualityChoices,
       n \in NumChoices :
        \/ ClickInvalid(mn, mx, q, n)
        \/ ClickValid(mn, mx, q, n)

SearchStep ==
    \/ SearchFailed
    \/ \E shape \in HitsShapes : SearchResponded(shape)
    \/ \E video \in HitPool : FilterStep(video)
    \/ Select

DownloadStep ==
    \/ DownloadLoopExit
    \/ DownloadCrash
    \/ DownloadBadUrl
    \/ DownloadRequest
    \/ DownloadSucceeded
    \/ DownloadFailed
    \/ Summary

Next == Click \/ SearchStep \/ DownloadStep

Spec == Init /\ [][Next]_vars

----------------------------------------------------------------------------
(* Properties *)

Range(seq) == {seq[k] : k \in 1..Len(seq)}

Increasing(seq) == \A a, b \in 1..Len(seq) : a < b => seq[a] < seq[b]

\* the hit has a non-empty download URL for the quality tag
HasDownloadUrl(video, q) ==
    /\ "videos" \in DOMAIN video
    /\ q \in DOMAIN video.videos
    /\ "url" \in DOMAIN video.videos[q]
    /\ video.videos[q].url # ""

\* indices whose request was sent and that no except clause dropped
Fetched == {k \in Range(download_requests) : k \notin skipped}

\* C1: every record in eligible_videos reports a duration within
\* [min_duration, max_duration] and has a non-empty download URL for the
\* requested quality tag.
C1_EligibleInRangeWithUrl ==
    \A k \in 1..Len(eligible_videos) :
        /\ "duration" \in DOMAIN eligible_videos[k]
        /\ min_duration <= eligible_videos[k].duration
        /\ eligible_videos[k].duration <= max_duration
        /\ HasDownloadUrl(eligible_videos[k], video_quality)

\* C2: eligible_videos never holds more than num_videos_to_download records,
\* and once it holds that many the run requests no further search page and
\* examines no further hit.
C2_CountBoundsSearch ==
    /\ [](Len(eligible_videos) <= num_videos_to_download)
    /\ [][(Len(eligible_videos) >= num_videos_to_download /\ pc \notin Terminal)
            => /\ search_requests' = search_requests
               /\ remaining' = remaining
               /\ eligible_videos' = eligible_videos]_vars

C2_Witness ==
    /\ pc = "Ready"
    /\ Len(eligible_videos) = num_videos_to_download
    /\ remaining > 0
    /\ search_requests = <<1>>

\* C3: after a search response without hits the run requests no later page,
\* whatever is left of the page budget; it is not failed, and goes on to the
\* selection with the hits collected so far.
C3_EmptyPageEndsPaging ==
    /\ [](empty_page => pc \notin {"Searching", "Filtering", "Failed"})
    /\ [][/\ (empty_page /\ pc \notin Terminal)
                => search_requests' = search_requests
          /\ (~empty_page /\ empty_page')
                => (pc' = "Selected" /\ eligible_videos' = eligible_videos)]_vars

C3_Witness ==
    /\ empty_page
    /\ search_requests = <<1>>
    /\ pc = "Stopped"

\* C4: the zip never holds more entries than num_videos_to_download, and
\* when the download loop is over its entries are exactly the downloads that
\* succeeded, which are also the names in downloaded_files.
C4_EntriesAreSuccesses ==
    /\ Len(zip_file) <= num_videos_to_download
    /\ (zip_buffer = "closed")
        => /\ Len(zip_file) = Cardinality(Fetched)
           /\ Len(zip_file) = Len(downloaded_files)

C4_Witness ==
    /\ pc = "Ready"
    /\ Len(zip_file) = 1
    /\ Cardinality(skipped) = 1
    /\ Len(download_requests) = 2

\* C5: a failure on one eligible video is confined to it: when the download
\* phase is over every eligible video was archived or skipped and the run
\* is at (or on its way to) the final summary.
C5_FailureConfined ==
    zip_buffer = "closed"
        => /\ pc \in {"Summary", "Ready"}
           /\ \A k \in 0..(Len(eligible_videos) - 1) :
                 k \in Range(archived) \/ k \in skipped

\* C6: when fetching or decoding a search page fails the run is Failed: no
\* video is requested, no archive is created or offered, and nothing is
\* downloaded from the hits collected so far.
C6_SearchFailureIsFatal ==
    search_failed
        => /\ pc = "Failed"
           /\ download_requests = <<>>
           /\ zip_buffer = "none"
           /\ zip_file = <<>>
           /\ downloaded_files = <<>>
           /\ ~offered

C6_Witness ==
    /\ search_failed
    /\ search_requests = <<1, 2>>
    /\ eligible_videos # <<>>

\* C7: when a run has ended, the archive is offered if and only if at least
\* one video was downloaded successfully in that run.
C7_OfferedIffDownloaded ==
    pc \in Terminal => (offered <=> archived # <<>>)

\* C8: a click with min_duration >= max_duration issues no request, keeps
\* st.session_state.downloaded_files as it was, creates no eligible list or
\* archive, and leaves the workflow Idle with a validation error.
C8_InvalidRangeAborts ==
    /\ [](min_duration >= max_duration
            => /\ pc = "Idle"
               /\ search_requests = <<>>
               /\ download_requests = <<>>)
    /\ [][(pc \in Terminal /\ min_duration' >= max_duration')
            => /\ downloaded_files' = downloaded_files
               /\ pc' = "Idle"
               /\ status' = "error"
               /\ eligible_videos' = <<>>
               /\ zip_buffer' = "none"
               /\ zip_file' = <<>>
               /\ ~offered']_vars

C8_Witness ==
    /\ pc = "Idle"
    /\ status = "error"
    /\ min_duration >= max_duration
    /\ downloaded_files # <<>>

\* C9: no two entries of the archive share a file name.
C9_UniqueNames ==
    \A a, b \in 1..Len(zip_file) : a # b => zip_file[a] # zip_file[b]

\* C10: hits are examined in the order returned and kept by appending, so
\* eligible_videos is in search order; videos are requested one at a time in
\* that order, each only after all earlier ones were archived or skipped; and
\* the archive entries and downloaded_files follow the same order.
C10_SearchOrderKept ==
    /\ [](/\ search_requests \in {<<>>, <<1>>, <<1, 2>>}
          /\ Increasing(download_requests)
          /\ Increasing(archived)
          /\ Range(archived) \subseteq 0..(Len(eligible_videos) - 1)
          /\ Len(zip_file) = Len(archived)
          /\ \A k \in 1..Len(archived) :
                zip_file[k] = FileName(eligible_videos[archived[k] + 1], archived[k])
          /\ (zip_buffer # "none" => downloaded_files = zip_file)
          /\ Cardinality(Range(download_requests) \ (Range(archived) \cup skipped))
                = IF pc = "Fetching" THEN 1 ELSE 0)
    /\ [][/\ (eligible_videos' # eligible_videos /\ pc \notin Terminal)
                => /\ pc = "Filtering"
                   /\ remaining' = remaining - 1
                   /\ Len(eligible_videos') = Len(eligible_videos) + 1
                   /\ SubSeq(eligible_videos', 1, Len(eligible_videos))
                        = eligible_videos
          /\ (download_requests' # download_requests /\ pc \notin Terminal)
                => /\ download_requests' = Append(download_requests, i)
                   /\ \A k \in 0..(i - 1) :
                         k \in Range(archived) \/ k \in skipped]_vars

C10_Witness ==
    /\ pc = "Ready"
    /\ search_requests = <<1, 2>>
    /\ Len(zip_file) = 2
    /\ zip_file[1] # zip_file[2]

====
